---- MODULE Spec2Model ----
(***************************************************************************)
(* Attendance calendar hook (useAttendanceCalendar), its historical        *)
(* queries (fetchAttendanceRecords, fetchDailyAttendance), the daily       *)
(* detail panel (DailyAttendanceDetails), the services registerFace,       *)
(* recordAttendance, storeUnrecognizedFace and recognizeFace, and the      *)
(* polled list of RecentActivity of the presence application.              *)
(*                                                                         *)
(* Instants are integers: day d starts at d * TicksPerDay and has          *)
(* TicksPerDay instants.  Text is a sequence of one-character strings.     *)
(* Distances are fixed point numbers in thousandths; descriptor            *)
(* components are in tenths.  The display state selectedFace of the hook   *)
(* (fetchFaceDetails) takes no part in the calendar and is left out.       *)
(***************************************************************************)
EXTENDS Integers, Sequences, FiniteSets, TLC

VARIABLES
    attendance_records,   \* rows of the backend table, in insertion order
    recentAttendance,     \* live records of the AttendanceContext
    selectedFaceId,       \* the hook's argument
    selectedDate,         \* useState selectedDate
    attendanceDays,       \* useState attendanceDays   (present days)
    lateAttendanceDays,   \* useState lateAttendanceDays
    absentDays,           \* useState absentDays
    workingDays,          \* useState workingDays
    dailyAttendance,      \* useState dailyAttendance  (daily detail)
    loading,              \* useState loading
    channels,             \* live channels opened by the hook and not removed
    attendanceFetches,    \* loadAttendanceRecords calls in flight
    dailyFetches,         \* loadDailyAttendance calls in flight
    toasts,               \* error notifications raised by the latest step
    mounted,              \* whether a component using the hook is mounted
    recognition,          \* the last recognizeFace call: its inputs and result
    service,              \* the last call of a function that writes the table
    panel,                \* the last render of DailyAttendanceDetails
    activityData,         \* useState activityData of RecentActivity
    polls,                \* fetchRecentActivity calls in flight
    pollLog,              \* history: the polls started, shown and succeeded
    codec,                \* the last descriptor written as text and read back
    classified            \* the last record put through both merge paths

dashboardVars == <<panel, activityData, polls, pollLog, codec, classified>>

vars == <<attendance_records, recentAttendance, selectedFaceId, selectedDate,
          attendanceDays, lateAttendanceDays, absentDays, workingDays,
          dailyAttendance, loading, channels, attendanceFetches, dailyFetches,
          toasts, mounted, recognition, service, dashboardVars>>

calendarVars == <<recentAttendance, selectedFaceId, selectedDate,
                  attendanceDays, lateAttendanceDays, absentDays, workingDays,
                  dailyAttendance, loading, channels, attendanceFetches,
                  dailyFetches, toasts, mounted>>

-----------------------------------------------------------------------------
(* Bounds of the model *)

\* days of the generated month
DaysInMonth == 4
\* instants per calendar day
TicksPerDay == 2
\* rows the backend table holds at most
MaxRecords == 2
\* length of recentAttendance at most
MaxLive == 2
\* loadAttendanceRecords calls in flight at most
MaxFetches == 1
\* loadDailyAttendance calls in flight at most
MaxDailyFetches == 1
\* fetches in flight with a failed query at most
MaxFailures == 1
\* rows the table of registered faces holds at most
MaxRegistered == 3
\* rows registerFace and recordAttendance write at most
MaxServiceRows == 2
\* components of a descriptor written and read back at most
MaxDescriptorLen == 3
\* loads of one kind in flight at most, where loads overlap
MaxOverlap == 2
\* calls of fetchRecentActivity started at most
MaxPolls == 3

\* null / undefined of a string valued field
NULL == "null"
\* undefined selectedDate
NoDate == -1

\* the current day: the last day of the month is still in the future
Today == DaysInMonth - 1
\* new Date(): an instant inside the current day
Now == Today * TicksPerDay + 1

-----------------------------------------------------------------------------
(* Text *)

UpperCase == <<"A","B","C","D","E","F","G","H","I","J","K","L","M",
               "N","O","P","Q","R","S","T","U","V","W","X","Y","Z">>
LowerCase == <<"a","b","c","d","e","f","g","h","i","j","k","l","m",
               "n","o","p","q","r","s","t","u","v","w","x","y","z">>

toLowerCaseChar(c) ==
    IF \E i \in 1..26 : UpperCase[i] = c
    THEN LowerCase[CHOOSE i \in 1..26 : UpperCase[i] = c]
    ELSE c

\* String.prototype.toLowerCase
toLowerCase(s) == [i \in 1..Len(s) |-> toLowerCaseChar(s[i])]

\* String.prototype.includes
includes(s, sub) ==
    \E k \in 0..(Len(s) - Len(sub)) :
        \A i \in 1..Len(sub) : s[k + i] = sub[i]

S_present == <<"p","r","e","s","e","n","t">>
S_Present == <<"P","r","e","s","e","n","t">>
S_late == <<"l","a","t","e">>
S_Late == <<"L","a","t","e">>
S_unauthorized == <<"u","n","a","u","t","h","o","r","i","z","e","d">>
S_Unauthorized == <<"U","n","a","u","t","h","o","r","i","z","e","d">>
S_PRESENT == <<"P","R","E","S","E","N","T">>
S_LATE == <<"L","A","T","E">>
S_registered == <<"r","e","g","i","s","t","e","r","e","d">>
S_absent == <<"a","b","s","e","n","t">>

-----------------------------------------------------------------------------
(* Dates *)

\* new Date(ts): the timestamp text of a row denotes one instant
\* date.setHours(0, 0, 0, 0)
startOfDay(t) == t - (t % TicksPerDay)
\* date.setHours(23, 59, 59, 999)
endOfDay(t) == startOfDay(t) + TicksPerDay - 1
\* the calendar date of an instant
DayOf(t) == t \div TicksPerDay

\* attendanceUtils.isDateInArray: membership by calendar date
isDateInArray(date, dateArray) ==
    \E i \in 1..Len(dateArray) : DayOf(dateArray[i]) = DayOf(date)

\* attendanceUtils.generateWorkingDays: the dates of the month outside the
\* weekend; day 1 of the month is a Sunday and day 7 a Saturday
isWeekend(d) == (d % 7) \in {0, 1}
generateWorkingDays ==
    LET F[d \in 0..DaysInMonth] ==
            IF d = 0 THEN <<>>
            ELSE IF isWeekend(d) THEN F[d - 1]
            ELSE Append(F[d - 1], d * TicksPerDay)
    IN F[DaysInMonth]

-----------------------------------------------------------------------------
(* Rows of attendance_records *)

\* device_info: null, or an object whose metadata may be missing; a
\* faceDescriptor is undefined, not a string, or a text
NoDeviceInfo == [isNull |-> TRUE]
NoMetadata == [isNull |-> TRUE]
DeviceInfo(metadata) == [isNull |-> FALSE, metadata |-> metadata]
Metadata(name, employee_id, faceDescriptor) ==
    [isNull |-> FALSE, name |-> name, employee_id |-> employee_id,
     department |-> "", position |-> "Staff", firebase_image_url |-> "url",
     faceDescriptor |-> faceDescriptor]
Undefined == [type |-> "undefined"]
Text(chars) == [type |-> "string", text |-> chars]

Row(id, user_id, day, tod, status) ==
    [id |-> id, user_id |-> user_id, timestamp |-> day * TicksPerDay + tod,
     status |-> status, device_info |-> NoDeviceInfo]

\* the attendance rows other parts of the application may insert; r0 is the
\* row of an unrecognized face, which has no user
AttendancePool ==
    { Row("r0", NULL, 1, 1, S_Unauthorized),
      Row("r1", "A", 2, 1, S_present),
      Row("r2", "A", 2, 0, S_Late),
      Row("r3", "A", 3, 1, S_Present),
      Row("r4", "B", 2, 1, S_present) }

Faces == {"A", "B"}

\* the order of the row ids: rows are inserted in this order
Less(a, b) ==
    LET ids == <<"r0", "r1", "r2", "r3", "r4">>
    IN \E i, j \in 1..Len(ids) : ids[i] = a /\ ids[j] = b /\ i < j

RemoveAt(seq, i) == [j \in 1..(Len(seq) - 1) |-> IF j < i THEN seq[j] ELSE seq[j + 1]]

Range(seq) == {seq[i] : i \in 1..Len(seq)}

\* a query that also returns the rows whose column is null
selectEqOrNull(column, value) ==
    SelectSeq(attendance_records, LAMBDA r : r[column] = value \/ r[column] = NULL)

\* supabase .from('attendance_records').select().eq(column, value)
selectEq(column, value) ==
    SelectSeq(attendance_records, LAMBDA r : r[column] = value)

-----------------------------------------------------------------------------
(* The state of the hook as one record, so that effects compose *)

Hook ==
    [attendanceDays |-> attendanceDays,
     lateAttendanceDays |-> lateAttendanceDays,
     absentDays |-> absentDays,
     workingDays |-> workingDays,
     dailyAttendance |-> dailyAttendance,
     loading |-> loading,
     channels |-> channels,
     attendanceFetches |-> attendanceFetches,
     dailyFetches |-> dailyFetches,
     toasts |-> {}]

Commit(h) ==
    /\ attendanceDays' = h.attendanceDays
    /\ lateAttendanceDays' = h.lateAttendanceDays
    /\ absentDays' = h.absentDays
    /\ workingDays' = h.workingDays
    /\ dailyAttendance' = h.dailyAttendance
    /\ loading' = h.loading
    /\ channels' = h.channels
    /\ attendanceFetches' = h.attendanceFetches
    /\ dailyFetches' = h.dailyFetches
    /\ toasts' = h.toasts

\* the status test of the live merge: present first, then late
liveClass(status) ==
    IF includes(toLowerCase(status), S_present) THEN "present"
    ELSE IF includes(toLowerCase(status), S_late) THEN "late"
    ELSE "none"

\* faceRecords.forEach of the live merge: one date per calendar day, the first
\* record of a day decides whether the day is present or late
collectLive(faceRecords) ==
    LET F[n \in 0..Len(faceRecords)] ==
            IF n = 0 THEN [presentDates |-> <<>>, lateDates |-> <<>>]
            ELSE LET acc == F[n - 1]
                     record == faceRecords[n]
                     recordDate == startOfDay(record.timestamp)
                     dateExists ==
                         \/ \E i \in 1..Len(acc.presentDates) : acc.presentDates[i] = recordDate
                         \/ \E i \in 1..Len(acc.lateDates) : acc.lateDates[i] = recordDate
                 IN IF dateExists THEN acc
                    ELSE IF liveClass(record.status) = "present"
                         THEN [acc EXCEPT !.presentDates = Append(@, recordDate)]
                    ELSE IF liveClass(record.status) = "late"
                         THEN [acc EXCEPT !.lateDates = Append(@, recordDate)]
                    ELSE acc
    IN F[Len(faceRecords)]

\* the functional update without the test for dates already known
combineDatesAppend(prev, dates) == prev \o dates

\* the functional update of the live merge: prev plus the dates not yet in it
combineDates(prev, dates) ==
    LET F[n \in 0..Len(dates)] ==
            IF n = 0 THEN prev
            ELSE IF isDateInArray(dates[n], F[n - 1]) THEN F[n - 1]
            ELSE Append(F[n - 1], dates[n])
    IN F[Len(dates)]

\* the records of the live feed that belong to the identity
faceRecordsOf(faceId, recent) ==
    SelectSeq(recent, LAMBDA r : r.user_id = faceId \/ r.id = faceId)

\* useEffect [selectedFaceId, recentAttendance, selectedDate]
mergeEffect(h, faceId, recent, date) ==
    LET faceRecords == faceRecordsOf(faceId, recent)
        c == collectLive(faceRecords)
        recordsForSelectedDate ==
            SelectSeq(faceRecords, LAMBDA r :
                r.timestamp >= startOfDay(date) /\ r.timestamp <= endOfDay(date))
        h1 == IF Len(c.presentDates) > 0
              THEN [h EXCEPT !.attendanceDays = combineDates(@, c.presentDates)]
              ELSE h
        h2 == IF Len(c.lateDates) > 0
              THEN [h1 EXCEPT !.lateAttendanceDays = combineDates(@, c.lateDates)]
              ELSE h1
        h3 == IF date # NoDate /\ Len(recordsForSelectedDate) > 0
              THEN [h2 EXCEPT !.dailyAttendance =
                       [i \in 1..Len(recordsForSelectedDate) |->
                           [id |-> recordsForSelectedDate[i].id,
                            timestamp |-> recordsForSelectedDate[i].timestamp,
                            status |-> toLowerCase(recordsForSelectedDate[i].status)]]]
              ELSE h2
    IN IF faceId # NULL /\ Len(recent) > 0 /\ Len(faceRecords) > 0 THEN h3 ELSE h

\* absentEffect that does not leave out the working days after today
absentEffectWithFuture(h) ==
    IF Len(h.workingDays) > 0
       /\ (Len(h.attendanceDays) > 0 \/ Len(h.lateAttendanceDays) > 0)
    THEN [h EXCEPT !.absentDays =
             SelectSeq(h.workingDays, LAMBDA workDay :
                 /\ ~isDateInArray(workDay, h.attendanceDays)
                 /\ ~isDateInArray(workDay, h.lateAttendanceDays))]
    ELSE h

\* useEffect [workingDays, attendanceDays, lateAttendanceDays]
absentEffect(h) ==
    IF Len(h.workingDays) > 0
       /\ (Len(h.attendanceDays) > 0 \/ Len(h.lateAttendanceDays) > 0)
    THEN [h EXCEPT !.absentDays =
             SelectSeq(h.workingDays, LAMBDA workDay :
                 /\ ~(workDay > Now)
                 /\ ~isDateInArray(workDay, h.attendanceDays)
                 /\ ~isDateInArray(workDay, h.lateAttendanceDays))]
    ELSE h

\* loadAttendanceRecords up to its first await
startAttendanceFetch(h, faceId) ==
    [h EXCEPT !.loading = TRUE,
              !.attendanceFetches =
                  Append(@, [faceId |-> faceId, pc |-> "byId", threw |-> FALSE,
                             recordsById |-> <<>>, errorById |-> FALSE,
                             recordsByUserId |-> <<>>, errorByUserId |-> FALSE])]

\* loadDailyAttendance up to its first await
startDailyFetch(h, faceId, date) ==
    [h EXCEPT !.dailyFetches =
                  Append(@, [faceId |-> faceId, date |-> date, pc |-> "byId",
                             threw |-> FALSE,
                             recordsById |-> <<>>, errorById |-> FALSE,
                             recordsByUserId |-> <<>>, errorByUserId |-> FALSE])]

\* a cleanup that leaves the channel open
removeChannelSkipped(h, faceId) == h

\* the cleanup of the subscribe effect: supabase.removeChannel(channel) on the
\* channel its run opened, when the run had an identity
removeChannel(h, faceId) ==
    [h EXCEPT !.channels = {ch \in @ : ch.faceId # faceId}]

\* useEffect [selectedFaceId]: the cleanup of the previous run, then the body
subscribeEffect(h, faceId, date) ==
    LET cleaned == removeChannel(h, selectedFaceId)
    IN IF faceId # NULL
       THEN [startAttendanceFetch(cleaned, faceId) EXCEPT
                !.workingDays = generateWorkingDays,
                !.channels = {[faceId |-> faceId, selectedDate |-> date]}]
       ELSE [cleaned EXCEPT !.attendanceDays = <<>>,
                            !.lateAttendanceDays = <<>>,
                            !.absentDays = <<>>]

\* the daily effect without its else branch
dailyEffectKeepsDetail(h, faceId, date) ==
    IF faceId # NULL /\ date # NoDate
    THEN startDailyFetch(h, faceId, date)
    ELSE h

\* useEffect [selectedFaceId, selectedDate]
dailyEffect(h, faceId, date) ==
    IF faceId # NULL /\ date # NoDate
    THEN startDailyFetch(h, faceId, date)
    ELSE [h EXCEPT !.dailyAttendance = <<>>]

-----------------------------------------------------------------------------
(* fetchAttendanceRecords and fetchDailyAttendance *)

\* what one awaited query can come to: rows, an error result (data null), or
\* a rejected promise
QueryOutcomes == {"data", "error", "throw"}

\* allRecords.map(record => ({...record, status: record.status.toLowerCase()}))
normalizeStatus(records) ==
    [i \in 1..Len(records) |-> [records[i] EXCEPT !.status = toLowerCase(@)]]

\* presentRecords.map(record => new Date(record.timestamp))
toDates(records) == [i \in 1..Len(records) |-> records[i].timestamp]

\* fetchAttendanceRecords after its second await: the two setters
applyAttendanceRecords(h, fetch) ==
    LET allRecords == normalizeStatus(fetch.recordsById \o fetch.recordsByUserId)
        presentRecords ==
            SelectSeq(allRecords, LAMBDA r :
                r.status = S_present \/ r.status = S_unauthorized)
        lateRecords == SelectSeq(allRecords, LAMBDA r : r.status = S_late)
    IN [h EXCEPT !.attendanceDays = toDates(presentRecords),
                 !.lateAttendanceDays = toDates(lateRecords)]

\* .order('timestamp', { ascending: true })
orderByTimestamp(records) ==
    LET insert(sorted, r) ==
            LET k == Cardinality({i \in 1..Len(sorted) : sorted[i].timestamp <= r.timestamp})
            IN SubSeq(sorted, 1, k) \o <<r>> \o SubSeq(sorted, k + 1, Len(sorted))
        F[n \in 0..Len(records)] ==
            IF n = 0 THEN <<>> ELSE insert(F[n - 1], records[n])
    IN F[Len(records)]

\* .select('id, timestamp, status').eq(column, faceId).gte(..).lte(..).order(..)
selectDaily(column, faceId, date) ==
    LET rows == SelectSeq(selectEq(column, faceId), LAMBDA r :
                    r.timestamp >= startOfDay(date) /\ r.timestamp <= endOfDay(date))
        sorted == orderByTimestamp(rows)
    IN [i \in 1..Len(sorted) |->
           [id |-> sorted[i].id, timestamp |-> sorted[i].timestamp,
            status |-> sorted[i].status]]

\* fetchDailyAttendance after its second await
applyDailyAttendance(h, fetch) ==
    LET allRecords == fetch.recordsById \o fetch.recordsByUserId
    IN [h EXCEPT !.dailyAttendance =
           [i \in 1..Len(allRecords) |->
               [allRecords[i] EXCEPT !.status =
                   IF toLowerCase(@) = S_unauthorized THEN S_present
                   ELSE toLowerCase(@)]]]

\* a fetch in flight one of whose queries failed
hasFailed(fetch) == fetch.threw \/ fetch.errorById \/ fetch.errorByUserId

\* the backend fails a query: at most MaxFailures fetches in flight are hit
Fails(outcome) ==
    /\ toasts' = {}
    /\ outcome # "data" =>
           Cardinality({i \in 1..Len(attendanceFetches) : hasFailed(attendanceFetches[i])})
           + Cardinality({i \in 1..Len(dailyFetches) : hasFailed(dailyFetches[i])})
               < MaxFailures

\* one awaited query of a fetch in flight
answerQuery(fetch, field, errorField, next, outcome, rows) ==
    IF outcome = "throw" THEN [fetch EXCEPT !.pc = "done", !.threw = TRUE]
    ELSE IF outcome = "error"
         THEN [fetch EXCEPT !.pc = next, ![field] = <<>>, ![errorField] = TRUE]
    ELSE [fetch EXCEPT !.pc = next, ![field] = rows]

-----------------------------------------------------------------------------
(* Descriptors and their text form; a component is a number of tenths *)

Digits == <<"0","1","2","3","4","5","6","7","8","9">>
isDigit(c) == \E i \in 1..10 : Digits[i] = c
digitValue(c) == (CHOOSE i \in 1..10 : Digits[i] = c) - 1

\* a writer that puts a comma after every component, the last one included
descriptorToStringTrailingComma(descriptor) ==
    LET F[n \in 0..Len(descriptor)] ==
            IF n = 0 THEN <<"[">>
            ELSE F[n - 1] \o <<Digits[descriptor[n] + 1], ",">>
    IN Append(F[Len(descriptor)], "]")

\* ModelService.descriptorToString: the JSON text of the array
descriptorToString(descriptor) ==
    LET F[n \in 0..Len(descriptor)] ==
            IF n = 0 THEN <<"[">>
            ELSE IF n = 1 THEN Append(F[0], Digits[descriptor[1] + 1])
            ELSE F[n - 1] \o <<",", Digits[descriptor[n] + 1]>>
    IN Append(F[Len(descriptor)], "]")

\* ModelService.stringToDescriptor: the array a JSON text denotes; a text that
\* is no JSON array of numbers throws
stringToDescriptor(text) ==
    LET n == Len(text)
        inner == SubSeq(text, 2, n - 1)
        wellFormed ==
            /\ n >= 2 /\ text[1] = "[" /\ text[n] = "]"
            /\ \/ Len(inner) = 0
               \/ /\ Len(inner) % 2 = 1
                  /\ \A i \in 1..Len(inner) :
                        IF i % 2 = 1 THEN isDigit(inner[i]) ELSE inner[i] = ","
    IN IF wellFormed
       THEN [threw |-> FALSE,
             value |-> [i \in 1..((Len(inner) + 1) \div 2) |-> digitValue(inner[2 * i - 1])]]
       ELSE [threw |-> TRUE]

-----------------------------------------------------------------------------
(* recognizeFace *)

\* let bestDistance = 0.6, in thousandths
Threshold == 600

\* Math.sqrt of a number of hundredths, in thousandths, rounded down
sqrtMilli(sum) ==
    LET q == CHOOSE r \in 0..sum : r * r <= sum /\ sum < (r + 1) * (r + 1)
    IN CHOOSE r \in (100 * q)..(100 * (q + 1)) :
           r * r <= 10000 * sum /\ 10000 * sum < (r + 1) * (r + 1)

\* calculateDistance over the first n components, without the length test
calculateDistancePrefix(descriptor1, descriptor2) ==
    LET n == IF Len(descriptor1) < Len(descriptor2) THEN Len(descriptor1) ELSE Len(descriptor2)
        sum[i \in 0..n] ==
            IF i = 0 THEN 0
            ELSE sum[i - 1] + (descriptor1[i] - descriptor2[i]) * (descriptor1[i] - descriptor2[i])
    IN [threw |-> FALSE, value |-> sqrtMilli(sum[n])]

\* calculateDistance summing the absolute differences
calculateDistanceManhattan(descriptor1, descriptor2) ==
    IF Len(descriptor1) # Len(descriptor2) THEN [threw |-> TRUE]
    ELSE LET abs(x) == IF x < 0 THEN -x ELSE x
             sum[i \in 0..Len(descriptor1)] ==
                 IF i = 0 THEN 0
                 ELSE sum[i - 1] + abs(descriptor1[i] - descriptor2[i])
         IN [threw |-> FALSE, value |-> 100 * sum[Len(descriptor1)]]

\* calculateDistance: throws on descriptors of different dimensions
calculateDistance(descriptor1, descriptor2) ==
    IF Len(descriptor1) # Len(descriptor2) THEN [threw |-> TRUE]
    ELSE LET sum[i \in 0..Len(descriptor1)] ==
                 IF i = 0 THEN 0
                 ELSE LET diff == descriptor1[i] - descriptor2[i]
                      IN sum[i - 1] + diff * diff
         IN [threw |-> FALSE, value |-> sqrtMilli(sum[Len(descriptor1)])]

\* the distance of one record, or that the record is passed over: the guard
\* on device_info, and the try/catch around decoding and comparing
recordDistance(faceDescriptor, record) ==
    LET deviceInfo == record.device_info
        usable ==
            /\ ~deviceInfo.isNull
            /\ ~deviceInfo.metadata.isNull
            /\ deviceInfo.metadata.faceDescriptor.type = "string"
            /\ Len(deviceInfo.metadata.faceDescriptor.text) > 0
        registeredDescriptor == stringToDescriptor(deviceInfo.metadata.faceDescriptor.text)
        distance == calculateDistance(faceDescriptor, registeredDescriptor.value)
    IN IF ~usable THEN [skipped |-> TRUE]
       ELSE IF registeredDescriptor.threw THEN [skipped |-> TRUE]
       ELSE IF distance.threw THEN [skipped |-> TRUE]
       ELSE [skipped |-> FALSE, value |-> distance.value]

\* the body of the loop with <= in place of <
compareRecordOrEqual(best, faceDescriptor, record) ==
    LET distance == recordDistance(faceDescriptor, record)
    IN IF ~distance.skipped /\ distance.value <= best.bestDistance
       THEN [bestDistance |-> distance.value, bestMatch |-> <<record>>]
       ELSE best

\* the body of for (const record of data); bestMatch is null or one record
compareRecord(best, faceDescriptor, record) ==
    LET distance == recordDistance(faceDescriptor, record)
    IN IF ~distance.skipped /\ distance.value < best.bestDistance
       THEN [bestDistance |-> distance.value, bestMatch |-> <<record>>]
       ELSE best

\* value || fallback of a text field
orElse(value, fallback) == IF value = "" \/ value = NULL THEN fallback ELSE value

\* const employee: Employee = {...}
employeeOf(bestMatch) ==
    LET employeeData == bestMatch.device_info.metadata
    IN [id |-> orElse(bestMatch.user_id, "unknown"),
        name |-> orElse(employeeData.name, "Unknown"),
        employee_id |-> orElse(employeeData.employee_id, "Unknown"),
        department |-> orElse(employeeData.department, "Unknown"),
        position |-> orElse(employeeData.position, "Unknown"),
        firebase_image_url |-> orElse(employeeData.firebase_image_url, "")]

\* the loop over data and the result built from the best match
matchFaces(faceDescriptor, data) ==
    LET best[n \in 0..Len(data)] ==
            IF n = 0 THEN [bestDistance |-> Threshold, bestMatch |-> <<>>]
            ELSE compareRecord(best[n - 1], faceDescriptor, data[n])
        final == best[Len(data)]
    IN IF Len(final.bestMatch) > 0
       THEN IF final.bestMatch[1].device_info.isNull
               \/ final.bestMatch[1].device_info.metadata.isNull
            THEN [status |-> "returned", recognized |-> FALSE]
            ELSE [status |-> "returned", recognized |-> TRUE,
                  employee |-> employeeOf(final.bestMatch[1]),
                  confidence |-> 1000 - final.bestDistance]
       ELSE [status |-> "returned", recognized |-> FALSE]

\* recognizeFace that treats an empty table as a failure
recognizeFaceThrowsOnEmpty(faceDescriptor, query) ==
    IF query.error \/ Len(query.data) = 0 THEN [status |-> "threw"]
    ELSE matchFaces(faceDescriptor, query.data)

\* recognizeFace, given what the query for registered rows came to
recognizeFace(faceDescriptor, query) ==
    IF query.error THEN [status |-> "threw"]
    ELSE IF Len(query.data) = 0 THEN [status |-> "returned", recognized |-> FALSE]
    ELSE matchFaces(faceDescriptor, query.data)

\* rows of registered faces, and one attendance row that carries a descriptor
RegisteredRow(id, user_id, status, device_info) ==
    [id |-> id, user_id |-> user_id, timestamp |-> TicksPerDay,
     status |-> status, device_info |-> device_info]

RegisteredPool ==
    { RegisteredRow("g1", "A", S_registered,
          DeviceInfo(Metadata("Ann", "e1", Text(<<"[","3",",","4","]">>)))),
      RegisteredRow("g2", NULL, S_registered,
          DeviceInfo(Metadata("Bob", "", Text(<<"[","4",",","3","]">>)))),
      RegisteredRow("g3", "C", S_registered,
          DeviceInfo(Metadata("Cy", "e3", Text(<<"[","6",",","0","]">>)))),
      RegisteredRow("g4", "D", S_registered,
          DeviceInfo(Metadata("Di", "e4", Text(<<"[","3","]">>)))),
      RegisteredRow("g5", "E", S_registered,
          DeviceInfo(Metadata("Ed", "e5", Text(<<"[","3",",","x">>)))),
      RegisteredRow("g6", "F", S_registered,
          DeviceInfo(Metadata("Fay", "e6", Undefined))),
      RegisteredRow("g7", "G", S_present,
          DeviceInfo(Metadata("Gus", "e7", Text(<<"[","0",",","0","]">>)))),
      RegisteredRow("g8", "H", S_registered, NoDeviceInfo) }

\* the probes of the camera
Probes == { <<0, 0>>, <<3, 4>>, <<9, 9>> }

-----------------------------------------------------------------------------
(* registerFace and recordAttendance *)

\* the ids the backend gives to new rows, and the values of uuidv4()
NewIds == <<"n1", "n2", "n3", "n4">>
Uuids == <<"uuid1", "uuid2", "uuid3", "uuid4">>

\* registerFace that stores no descriptor
registerFaceOmitsDescriptor(in, env) ==
    IF in.imageBlob # "blob" \/ (env.upload = "fails" /\ env.readAsDataURL = "fails")
       \/ env.insert = "error"
    THEN [threw |-> TRUE, uploaded |-> in.imageBlob = "blob", row |-> <<>>]
    ELSE [threw |-> FALSE, uploaded |-> TRUE,
          row |-> <<[id |-> env.id,
                     user_id |-> IF in.userId = NULL THEN env.uuid ELSE in.userId,
                     timestamp |-> Now, status |-> S_registered,
                     device_info |-> DeviceInfo(
                         [isNull |-> FALSE, name |-> in.name,
                          employee_id |-> in.employee_id, department |-> in.department,
                          position |-> in.position,
                          firebase_image_url |-> "url", faceDescriptor |-> Undefined])]>>]

\* registerFace: the blob test, the upload with its base64 fallback, the
\* metadata with the descriptor text, and the insert; row is the record the
\* insert persisted, if any
registerFace(in, env) ==
    LET imageUrl == IF env.upload = "ok" THEN "url" ELSE "base64"
        metadata ==
            [isNull |-> FALSE, name |-> in.name, employee_id |-> in.employee_id,
             department |-> in.department, position |-> in.position,
             firebase_image_url |-> imageUrl,
             faceDescriptor |->
                 IF in.hasDescriptor THEN Text(descriptorToString(in.faceDescriptor))
                 ELSE Undefined]
        effectiveUserId == IF in.userId = NULL THEN env.uuid ELSE in.userId
    IN IF in.imageBlob # "blob"
       THEN [threw |-> TRUE, uploaded |-> FALSE, row |-> <<>>]
       ELSE IF env.upload = "fails" /\ env.readAsDataURL = "fails"
       THEN [threw |-> TRUE, uploaded |-> TRUE, row |-> <<>>]
       ELSE IF env.insert = "error"
       THEN [threw |-> TRUE, uploaded |-> TRUE, row |-> <<>>]
       ELSE [threw |-> FALSE, uploaded |-> TRUE,
             row |-> <<[id |-> env.id, user_id |-> effectiveUserId,
                        timestamp |-> Now, status |-> S_registered,
                        device_info |-> DeviceInfo(metadata)]>>]

\* the username of the profiles table
profileName(userId) == IF userId = "A" THEN "ann_a" ELSE NULL

\* recordAttendance: the status written, the device info with the name, and
\* the insert
recordAttendance(userId, status, deviceInfo, env) ==
    LET normalizedStatus == IF status = S_unauthorized THEN S_present ELSE status
        userName == IF userId # NULL /\ userId # "unknown"
                    THEN profileName(userId) ELSE NULL
        given == IF deviceInfo.isNull \/ deviceInfo.metadata.isNull
                 THEN [isNull |-> FALSE, name |-> NULL, employee_id |-> NULL,
                       department |-> NULL, position |-> NULL,
                       firebase_image_url |-> NULL, faceDescriptor |-> Undefined]
                 ELSE deviceInfo.metadata
        fullDeviceInfo ==
            DeviceInfo([given EXCEPT !.name = orElse(userName, orElse(@, "Unknown"))])
    IN IF env.insert = "error" THEN [threw |-> TRUE, row |-> <<>>]
       ELSE [threw |-> FALSE,
             row |-> <<[id |-> env.id, user_id |-> userId, timestamp |-> Now,
                        status |-> normalizedStatus,
                        device_info |-> fullDeviceInfo]>>]

\* storeUnrecognizedFace: the blob of the image, the upload with its base64
\* fallback, and the insert of a row without a user; every failure is logged
\* and none is thrown
storeUnrecognizedFace(imageData, env) ==
    LET imageUrl == IF env.upload = "ok" THEN "url" ELSE "base64"
    IN IF env.fetch = "fails" THEN [threw |-> FALSE, error |-> "fetch", row |-> <<>>]
       ELSE IF imageData # "blob" THEN [threw |-> FALSE, error |-> "blob", row |-> <<>>]
       ELSE IF env.insert = "error" THEN [threw |-> FALSE, error |-> "insert", row |-> <<>>]
       ELSE [threw |-> FALSE, error |-> "none",
             row |-> <<[id |-> env.id, user_id |-> NULL, timestamp |-> Now,
                        status |-> S_unauthorized,
                        device_info |-> DeviceInfo(NoMetadata)]>>]

\* an insert that writes over the newest row of the table
insertRowsOverLast(records, rows) ==
    IF Len(records) > 0 /\ Len(rows) > 0
    THEN SubSeq(records, 1, Len(records) - 1) \o rows
    ELSE records \o rows

\* supabase .from('attendance_records').insert(row): the rows the call
\* persisted come after the rows of the table
insertRows(records, rows) == records \o rows

\* what the callers pass to registerFace
RegistrationInputs ==
    { [imageBlob |-> b, name |-> "Zoe", employee_id |-> "e9", department |-> "Ops",
       position |-> "Staff", userId |-> "Z", hasDescriptor |-> TRUE,
       faceDescriptor |-> <<3, 4>>] : b \in {"blob", "empty"} }
    \cup
    { [imageBlob |-> "blob", name |-> "", employee_id |-> "e8", department |-> "Ops",
       position |-> "Staff", userId |-> NULL, hasDescriptor |-> TRUE,
       faceDescriptor |-> <<0, 0>>],
      [imageBlob |-> "blob", name |-> "Yan", employee_id |-> "e7", department |-> "",
       position |-> "", userId |-> "Y", hasDescriptor |-> FALSE,
       faceDescriptor |-> <<>>] }

-----------------------------------------------------------------------------
(* DailyAttendanceDetails: what the panel under the calendar shows *)

\* isFutureDate: later than the start of the current day
isFutureDate(date) == date > startOfDay(Now)

\* getRealtimeAttendance: null, or the live records inside the selected day
getRealtimeAttendance(date, recent) ==
    IF date = NoDate \/ Len(recent) = 0 THEN <<>>
    ELSE SelectSeq(recent, LAMBDA record :
             record.timestamp >= startOfDay(date) /\ record.timestamp <= endOfDay(date))

\* a render chain that looks at the live records before the future test
DailyAttendanceDetailsLiveFirst(date, daily, present, late, absent, recent) ==
    LET realtimeRecords == getRealtimeAttendance(date, recent)
    IN IF date = NoDate THEN [kind |-> "nothing"]
       ELSE IF Len(realtimeRecords) > 0
            THEN [kind |-> "realtime", records |-> realtimeRecords]
       ELSE IF isFutureDate(date) THEN [kind |-> "future"]
       ELSE IF Len(daily) > 0 THEN [kind |-> "daily", records |-> daily]
       ELSE IF isDateInArray(date, present) \/ isDateInArray(date, late)
            THEN [kind |-> "Present"]
       ELSE IF isDateInArray(date, absent) THEN [kind |-> "Absent"]
       ELSE [kind |-> "No attendance recorded"]

\* the render chain of the component
DailyAttendanceDetails(date, daily, present, late, absent, recent) ==
    LET realtimeRecords == getRealtimeAttendance(date, recent)
    IN IF date = NoDate THEN [kind |-> "nothing"]
       ELSE IF isFutureDate(date) THEN [kind |-> "future"]
       ELSE IF Len(realtimeRecords) > 0
            THEN [kind |-> "realtime", records |-> realtimeRecords]
       ELSE IF Len(daily) > 0 THEN [kind |-> "daily", records |-> daily]
       ELSE IF isDateInArray(date, present) \/ isDateInArray(date, late)
            THEN [kind |-> "Present"]
       ELSE IF isDateInArray(date, absent) THEN [kind |-> "Absent"]
       ELSE [kind |-> "No attendance recorded"]

-----------------------------------------------------------------------------
(* Actions of the calendar *)

CalendarInit ==
    /\ attendance_records = <<>>
    /\ recentAttendance = <<>>
    /\ selectedFaceId = NULL
    /\ selectedDate = Now
    /\ attendanceDays = <<>>
    /\ lateAttendanceDays = <<>>
    /\ absentDays = <<>>
    /\ workingDays = <<>>
    /\ dailyAttendance = <<>>
    /\ loading = FALSE
    /\ channels = {}
    /\ attendanceFetches = <<>>
    /\ dailyFetches = <<>>
    /\ toasts = {}
    /\ mounted = TRUE

NoRecognition == [called |-> FALSE]
NoService == [op |-> "none"]

\* another part of the application inserts an attendance row
InsertAttendance ==
    /\ Len(attendance_records) < MaxRecords
    /\ \E r \in AttendancePool :
          /\ \A i \in 1..Len(attendance_records) : Less(attendance_records[i].id, r.id)
          /\ attendance_records' = Append(attendance_records, r)
    /\ UNCHANGED <<calendarVars, recognition, service, dashboardVars>>

\* the effects of a render with another selectedFaceId, while fewer than
\* maxFetches and maxDaily calls are in flight
selectFace(faceId, maxFetches, maxDaily) ==
    /\ mounted
    /\ faceId # selectedFaceId
    /\ faceId # NULL => Len(attendanceFetches) < maxFetches
    /\ (faceId # NULL /\ selectedDate # NoDate) => Len(dailyFetches) < maxDaily
    /\ selectedFaceId' = faceId
    /\ Commit(absentEffect(
           dailyEffect(
               subscribeEffect(
                   mergeEffect(Hook, faceId, recentAttendance, selectedDate),
                   faceId, selectedDate),
               faceId, selectedDate)))
    /\ UNCHANGED <<attendance_records, recentAttendance, selectedDate, mounted,
                   recognition, service, dashboardVars>>

\* the hook is rendered with another selectedFaceId
SelectFace ==
    \E faceId \in Faces \cup {NULL} :
       selectFace(faceId, MaxFetches, MaxDailyFetches)

\* the dates the user picks in the calendar: yesterday and today
SelectableDates == {d * TicksPerDay : d \in {Today - 1, Today}}

\* setSelectedDate
SelectDate ==
    \E date \in SelectableDates :
       /\ mounted
       /\ date # selectedDate
       /\ (selectedFaceId # NULL /\ date # NoDate) => Len(dailyFetches) < MaxDailyFetches
       /\ selectedDate' = date
       /\ Commit(absentEffect(
              dailyEffect(
                  mergeEffect(Hook, selectedFaceId, recentAttendance, date),
                  selectedFaceId, date)))
       /\ UNCHANGED <<attendance_records, recentAttendance, selectedFaceId, mounted, recognition, service, dashboardVars>>

\* the live feed delivers a row of the table (at least once, in any order)
LiveEvent ==
    /\ Len(recentAttendance) < MaxLive
    /\ \E i \in 1..Len(attendance_records) :
          LET recent == Append(recentAttendance, attendance_records[i])
          IN /\ recentAttendance' = recent
             /\ Commit(absentEffect(
                    mergeEffect(Hook, selectedFaceId, recent, selectedDate)))
    /\ UNCHANGED <<attendance_records, selectedFaceId, selectedDate, mounted, recognition, service, dashboardVars>>

\* the callback of a channel: both loads are started again, while fewer than
\* maxFetches and maxDaily calls are in flight
channelCallback(ch, maxFetches, maxDaily) ==
       /\ Len(attendanceFetches) < maxFetches
       /\ ch.selectedDate # NoDate => Len(dailyFetches) < maxDaily
       /\ LET h1 == startAttendanceFetch(Hook, ch.faceId)
              h2 == IF ch.selectedDate # NoDate
                    THEN startDailyFetch(h1, ch.faceId, ch.selectedDate)
                    ELSE h1
          IN Commit(h2)
       /\ UNCHANGED <<attendance_records, recentAttendance, selectedFaceId,
                      selectedDate, mounted, recognition, service, dashboardVars>>

\* the postgres_changes callback of the channel
ChannelCallback ==
    \E ch \in channels :
       channelCallback(ch, MaxFetches, MaxDailyFetches)

\* the backend answers .eq('id', faceId) of fetchAttendanceRecords
AttendanceById ==
    \E i \in 1..Len(attendanceFetches), outcome \in QueryOutcomes :
       /\ Fails(outcome)
       /\ attendanceFetches[i].pc = "byId"
       /\ attendanceFetches' =
              [attendanceFetches EXCEPT ![i] =
                  answerQuery(@, "recordsById", "errorById", "byUserId", outcome,
                              selectEq("id", @.faceId))]
       /\ UNCHANGED <<attendance_records, recentAttendance, selectedFaceId,
                      selectedDate, attendanceDays, lateAttendanceDays, absentDays,
                      workingDays, dailyAttendance, loading, channels, dailyFetches,
                      mounted, recognition, service, dashboardVars>>

\* the backend answers .eq('user_id', faceId) of fetchAttendanceRecords
AttendanceByUserId ==
    \E i \in 1..Len(attendanceFetches), outcome \in QueryOutcomes :
       /\ Fails(outcome)
       /\ attendanceFetches[i].pc = "byUserId"
       /\ attendanceFetches' =
              [attendanceFetches EXCEPT ![i] =
                  answerQuery(@, "recordsByUserId", "errorByUserId", "done", outcome,
                              selectEq("user_id", @.faceId))]
       /\ UNCHANGED <<attendance_records, recentAttendance, selectedFaceId,
                      selectedDate, attendanceDays, lateAttendanceDays, absentDays,
                      workingDays, dailyAttendance, loading, channels, dailyFetches,
                      mounted, recognition, service, dashboardVars>>

\* loadAttendanceRecords resumes after fetchAttendanceRecords: the setters or
\* the catch, then finally
resolveAttendance(h, i) ==
    LET fetch == h.attendanceFetches[i]
        rest == [h EXCEPT !.attendanceFetches = RemoveAt(@, i), !.loading = FALSE]
    IN IF fetch.threw
       THEN [rest EXCEPT !.toasts = @ \cup {"Failed to load attendance records"}]
       ELSE absentEffect(applyAttendanceRecords(rest, fetch))

AttendanceResolved ==
    \E i \in 1..Len(attendanceFetches) :
       /\ attendanceFetches[i].pc = "done"
       /\ Commit(resolveAttendance(Hook, i))
       /\ UNCHANGED <<attendance_records, recentAttendance, selectedFaceId,
                      selectedDate, mounted, recognition, service, dashboardVars>>

\* the backend answers .eq('id', faceId) of fetchDailyAttendance
DailyById ==
    \E i \in 1..Len(dailyFetches), outcome \in QueryOutcomes :
       /\ Fails(outcome)
       /\ dailyFetches[i].pc = "byId"
       /\ dailyFetches' =
              [dailyFetches EXCEPT ![i] =
                  answerQuery(@, "recordsById", "errorById", "byUserId", outcome,
                              selectDaily("id", @.faceId, @.date))]
       /\ UNCHANGED <<attendance_records, recentAttendance, selectedFaceId,
                      selectedDate, attendanceDays, lateAttendanceDays, absentDays,
                      workingDays, dailyAttendance, loading, channels,
                      attendanceFetches, mounted, recognition, service, dashboardVars>>

\* the backend answers .eq('user_id', faceId) of fetchDailyAttendance
DailyByUserId ==
    \E i \in 1..Len(dailyFetches), outcome \in QueryOutcomes :
       /\ Fails(outcome)
       /\ dailyFetches[i].pc = "byUserId"
       /\ dailyFetches' =
              [dailyFetches EXCEPT ![i] =
                  answerQuery(@, "recordsByUserId", "errorByUserId", "done", outcome,
                              selectDaily("user_id", @.faceId, @.date))]
       /\ UNCHANGED <<attendance_records, recentAttendance, selectedFaceId,
                      selectedDate, attendanceDays, lateAttendanceDays, absentDays,
                      workingDays, dailyAttendance, loading, channels,
                      attendanceFetches, mounted, recognition, service, dashboardVars>>

\* loadDailyAttendance resumes after fetchDailyAttendance
resolveDaily(h, i) ==
    LET fetch == h.dailyFetches[i]
        rest == [h EXCEPT !.dailyFetches = RemoveAt(@, i)]
    IN IF fetch.threw
       THEN [rest EXCEPT !.toasts = @ \cup {"Failed to load daily attendance details"}]
       ELSE applyDailyAttendance(rest, fetch)

DailyResolved ==
    \E i \in 1..Len(dailyFetches) :
       /\ dailyFetches[i].pc = "done"
       /\ Commit(resolveDaily(Hook, i))
       /\ UNCHANGED <<attendance_records, recentAttendance, selectedFaceId,
                      selectedDate, mounted, recognition, service, dashboardVars>>

\* the component unmounts: the cleanup of the subscribe effect runs and the
\* state of the hook is gone (the next mount starts from the initial values);
\* the setters of the calls still in flight have no effect any more
Unmount ==
    /\ mounted
    /\ mounted' = FALSE
    /\ selectedFaceId' = NULL
    /\ selectedDate' = Now
    /\ Commit([removeChannel(Hook, selectedFaceId) EXCEPT
                  !.attendanceDays = <<>>, !.lateAttendanceDays = <<>>,
                  !.absentDays = <<>>, !.workingDays = <<>>,
                  !.dailyAttendance = <<>>, !.loading = FALSE,
                  !.attendanceFetches = <<>>, !.dailyFetches = <<>>])
    /\ UNCHANGED <<attendance_records, recentAttendance, recognition, service, dashboardVars>>

\* a component using the hook mounts, with no identity selected
Mount ==
    /\ ~mounted
    /\ mounted' = TRUE
    /\ UNCHANGED <<attendance_records, recentAttendance, selectedFaceId, selectedDate,
                   attendanceDays, lateAttendanceDays, absentDays, workingDays,
                   dailyAttendance, loading, channels, attendanceFetches,
                   dailyFetches, toasts, recognition, service, dashboardVars>>

\* RecentActivity before it mounts: no initial data, no poll started
NoPolls == [mounted |-> FALSE, started |-> 0, shown |-> 0, succeeded |-> 0,
            list |-> <<>>]
DashboardInit ==
    /\ panel = [rendered |-> FALSE]
    /\ activityData = <<>>
    /\ polls = <<>>
    /\ pollLog = NoPolls
    /\ codec = [called |-> FALSE]
    /\ classified = [called |-> FALSE]

Init ==
    /\ CalendarInit
    /\ recognition = NoRecognition
    /\ service = NoService
    /\ DashboardInit

Next ==
    \/ InsertAttendance
    \/ SelectFace
    \/ SelectDate
    \/ LiveEvent
    \/ ChannelCallback
    \/ AttendanceById
    \/ AttendanceByUserId
    \/ AttendanceResolved
    \/ DailyById
    \/ DailyByUserId
    \/ DailyResolved
    \/ Unmount
    \/ Mount

Spec == Init /\ [][Next]_vars

-----------------------------------------------------------------------------
(* The calendar with loads that overlap: a new load starts while the last one
   is still in flight *)

SelectFaceOverlap ==
    \E faceId \in Faces \cup {NULL} :
       selectFace(faceId, MaxOverlap, MaxOverlap)

ChannelCallbackOverlap ==
    \E ch \in channels :
       channelCallback(ch, MaxOverlap, MaxOverlap)

NextLoad ==
    \/ InsertAttendance
    \/ SelectFaceOverlap
    \/ ChannelCallbackOverlap
    \/ AttendanceById
    \/ AttendanceByUserId
    \/ AttendanceResolved
    \/ DailyById
    \/ DailyByUserId
    \/ DailyResolved

SpecLoad == Init /\ [][NextLoad]_vars

-----------------------------------------------------------------------------
(* RecentActivity: the list of the dashboard, polled on an interval *)

\* .limit(10)
ActivityLimit == 10

\* .order('timestamp', { ascending: false }).limit(10): the newest rows first;
\* rows of one timestamp come in any order
recentRows ==
    LET n == Len(attendance_records)
        ordered == {[i \in 1..n |-> attendance_records[p[i]]] : p \in Permutations(1..n)}
    IN {SubSeq(rows, 1, IF n < ActivityLimit THEN n ELSE ActivityLimit) :
           rows \in {o \in ordered :
                       \A i, j \in 1..n : i < j => o[i].timestamp >= o[j].timestamp}}

\* the name device_info carries, or Unknown
nameOfDeviceInfo(record) ==
    IF ~record.device_info.isNull /\ ~record.device_info.metadata.isNull
    THEN record.device_info.metadata.name
    ELSE "Unknown"

\* a record whose name has to be looked up in the profiles table
needsProfile(record) == nameOfDeviceInfo(record) = "Unknown" /\ record.user_id # NULL

\* data.map(async record => ({...record, displayName: name}))
processRecords(data) ==
    [i \in 1..Len(data) |->
        [id |-> data[i].id, user_id |-> data[i].user_id,
         timestamp |-> data[i].timestamp, status |-> data[i].status,
         displayName |->
             IF needsProfile(data[i])
             THEN orElse(profileName(data[i].user_id), "Unknown")
             ELSE nameOfDeviceInfo(data[i])]]

\* fetchRecentActivity up to its first await
startPoll ==
    /\ polls' = Append(polls, [n |-> pollLog.started + 1, pc |-> "query",
                               outcome |-> "data", data |-> <<>>])
    /\ pollLog' = [pollLog EXCEPT !.mounted = TRUE, !.started = @ + 1]

\* setActivityData(processedData) of call i, which then is over
showPoll(i, data) ==
    /\ activityData' = processRecords(data)
    /\ polls' = RemoveAt(polls, i)
    /\ pollLog' = [pollLog EXCEPT
                      !.shown = polls[i].n,
                      !.succeeded = IF polls[i].n > @ THEN polls[i].n ELSE @,
                      !.list = IF polls[i].n > pollLog.succeeded
                               THEN processRecords(data) ELSE @]

\* call i is over without a list to show
dropPoll(i) ==
    /\ polls' = RemoveAt(polls, i)
    /\ UNCHANGED <<activityData, pollLog>>

\* the component mounts: the effect runs with no initial data, fetches at once
\* and sets the interval
MountRecentActivity ==
    /\ ~pollLog.mounted
    /\ pollLog.started < MaxPolls
    /\ startPoll
    /\ UNCHANGED <<attendance_records, calendarVars, recognition, service,
                   panel, activityData, codec, classified>>

\* the interval fires, whether or not the calls before it are over
IntervalTick ==
    /\ pollLog.mounted
    /\ pollLog.started < MaxPolls
    /\ startPoll
    /\ UNCHANGED <<attendance_records, calendarVars, recognition, service,
                   panel, activityData, codec, classified>>

\* the backend runs the query of call i on the table as it is now
PollQueried ==
    /\ \E i \in 1..Len(polls), outcome \in QueryOutcomes :
          /\ polls[i].pc = "query"
          /\ \E data \in recentRows :
                polls' = [polls EXCEPT ![i] =
                             [@ EXCEPT !.pc = "answer", !.outcome = outcome,
                                       !.data = IF outcome = "data" THEN data ELSE <<>>]]
    /\ UNCHANGED <<attendance_records, calendarVars, recognition, service,
                   panel, activityData, pollLog, codec, classified>>

\* the answer of the query reaches call i: an error result or a rejected
\* promise ends the call; rows are shown at once when no name has to be looked
\* up, else the call awaits the profiles
PollAnswered ==
    /\ \E i \in 1..Len(polls) :
          /\ polls[i].pc = "answer"
          /\ IF polls[i].outcome # "data" THEN dropPoll(i)
             ELSE IF \E k \in 1..Len(polls[i].data) : needsProfile(polls[i].data[k])
                  THEN /\ polls' = [polls EXCEPT ![i] = [@ EXCEPT !.pc = "profiles"]]
                       /\ UNCHANGED <<activityData, pollLog>>
                  ELSE showPoll(i, polls[i].data)
    /\ UNCHANGED <<attendance_records, calendarVars, recognition, service,
                   panel, codec, classified>>

\* the profiles queries of call i are answered: Promise.all resolves and the
\* list is shown, or one of them rejects and the catch ends the call
ProfilesAnswered ==
    /\ \E i \in 1..Len(polls), outcome \in {"data", "throw"} :
          /\ polls[i].pc = "profiles"
          /\ IF outcome = "throw" THEN dropPoll(i)
             ELSE showPoll(i, polls[i].data)
    /\ UNCHANGED <<attendance_records, calendarVars, recognition, service,
                   panel, codec, classified>>

\* the component unmounts: the interval is cleared, and the state of the
\* component is gone with the calls that would have set it
UnmountRecentActivity ==
    /\ pollLog.mounted
    /\ activityData' = <<>>
    /\ polls' = <<>>
    /\ pollLog' = [pollLog EXCEPT !.mounted = FALSE, !.shown = 0, !.succeeded = 0,
                                  !.list = <<>>]
    /\ UNCHANGED <<attendance_records, calendarVars, recognition, service,
                   panel, codec, classified>>

NextPoll ==
    \/ InsertAttendance
    \/ MountRecentActivity
    \/ IntervalTick
    \/ PollQueried
    \/ PollAnswered
    \/ ProfilesAnswered
    \/ UnmountRecentActivity

SpecPoll == Init /\ [][NextPoll]_vars

-----------------------------------------------------------------------------
(* The matcher against a table of registered faces *)

\* a registration, or another writer, inserts a row
InsertRegistered ==
    /\ Len(attendance_records) < MaxRegistered
    /\ \E r \in RegisteredPool :
          /\ r \notin Range(attendance_records)
          /\ attendance_records' = Append(attendance_records, r)
    /\ UNCHANGED <<calendarVars, recognition, service, dashboardVars>>

\* one call of recognizeFace: the query and the pass over its rows
RecognizeFace ==
    \E faceDescriptor \in Probes, error \in BOOLEAN :
       LET query == [error |-> error,
                     data |-> IF error THEN <<>> ELSE selectEq("status", S_registered)]
       IN recognition' = [called |-> TRUE, faceDescriptor |-> faceDescriptor,
                          error |-> error, data |-> query.data,
                          result |-> recognizeFace(faceDescriptor, query)]
    /\ UNCHANGED <<attendance_records, calendarVars, service, dashboardVars>>

NextRec ==
    \/ InsertRegistered
    \/ RecognizeFace

SpecRec == Init /\ [][NextRec]_vars

-----------------------------------------------------------------------------
(* Registration, attendance recording and the matcher on one table *)

\* one call of registerFace
RegisterFace ==
    /\ Len(attendance_records) < MaxServiceRows
    /\ \E in \in RegistrationInputs,
          upload \in {"ok", "fails"}, readAsDataURL \in {"ok", "fails"},
          insert \in {"ok", "error"} :
          LET env == [upload |-> upload, readAsDataURL |-> readAsDataURL,
                      insert |-> insert,
                      id |-> NewIds[Len(attendance_records) + 1],
                      uuid |-> Uuids[Len(attendance_records) + 1]]
              result == registerFace(in, env)
          IN /\ upload = "ok" => readAsDataURL = "ok"
             /\ attendance_records' = insertRows(attendance_records, result.row)
             /\ service' = [op |-> "registerFace", in |-> in,
                            rowsBefore |-> Len(attendance_records),
                            threw |-> result.threw, uploaded |-> result.uploaded,
                            data |-> result.row]
    /\ UNCHANGED <<calendarVars, recognition, dashboardVars>>

\* one call of recordAttendance
RecordAttendance ==
    /\ Len(attendance_records) < MaxServiceRows
    /\ \E userId \in {"A", "unknown"},
          status \in {S_present, S_late, S_absent, S_unauthorized},
          deviceInfo \in {NoDeviceInfo, DeviceInfo(Metadata("Ann", "e1", Undefined))},
          insert \in {"ok", "error"} :
          LET env == [insert |-> insert, id |-> NewIds[Len(attendance_records) + 1]]
              result == recordAttendance(userId, status, deviceInfo, env)
          IN /\ attendance_records' = insertRows(attendance_records, result.row)
             /\ service' = [op |-> "recordAttendance", userId |-> userId,
                            status |-> status,
                            rowsBefore |-> Len(attendance_records),
                            threw |-> result.threw, data |-> result.row]
    /\ UNCHANGED <<calendarVars, recognition, dashboardVars>>

\* one call of storeUnrecognizedFace
StoreUnrecognizedFace ==
    /\ Len(attendance_records) < MaxServiceRows
    /\ \E imageData \in {"blob", "empty"}, fetch \in {"ok", "fails"},
          upload \in {"ok", "fails"}, insert \in {"ok", "error"} :
          LET env == [fetch |-> fetch, upload |-> upload, insert |-> insert,
                      id |-> NewIds[Len(attendance_records) + 1]]
              result == storeUnrecognizedFace(imageData, env)
          IN /\ attendance_records' = insertRows(attendance_records, result.row)
             /\ service' = [op |-> "storeUnrecognizedFace", imageData |-> imageData,
                            rowsBefore |-> Len(attendance_records),
                            threw |-> result.threw, error |-> result.error,
                            data |-> result.row]
    /\ UNCHANGED <<calendarVars, recognition, dashboardVars>>

NextSvc ==
    \/ RegisterFace
    \/ RecordAttendance
    \/ StoreUnrecognizedFace
    \/ RecognizeFace

SpecSvc == Init /\ [][NextSvc]_vars

-----------------------------------------------------------------------------
(* The panel on the props a parent may pass to it *)

\* the dates a calendar hands over: none, the days of the month, and now
PanelDates == {NoDate, Now} \cup {d * TicksPerDay : d \in 1..DaysInMonth}
\* a live record stamped on the day after today
FutureRow == Row("r9", "A", DaysInMonth, 0, S_present)
\* the arrays of dates and of detail records the props hold
PanelDays == {<<>>} \cup {<<d * TicksPerDay>> : d \in {Today, DaysInMonth}}
PanelDetails ==
    {<<>>} \cup {<<[id |-> "r1", timestamp |-> d * TicksPerDay, status |-> S_present]>> :
                    d \in {Today, DaysInMonth}}
PanelRecent == {<<>>} \cup {<<r>> : r \in AttendancePool \cup {FutureRow}}

\* the render of DailyAttendanceDetails on the props it is given
RenderPanel ==
    /\ ~panel.rendered
    /\ \E date \in PanelDates, daily \in PanelDetails, recent \in PanelRecent,
          present \in PanelDays, late \in PanelDays, absent \in PanelDays :
          panel' = [rendered |-> TRUE, selectedDate |-> date,
                    dailyAttendance |-> daily, attendanceDays |-> present,
                    lateAttendanceDays |-> late, absentDays |-> absent,
                    recentAttendance |-> recent,
                    view |-> DailyAttendanceDetails(date, daily, present, late,
                                                    absent, recent)]
    /\ UNCHANGED <<attendance_records, calendarVars, recognition, service,
                   activityData, polls, pollLog, codec, classified>>

NextPanel == RenderPanel

SpecPanel == Init /\ [][NextPanel]_vars

-----------------------------------------------------------------------------
(* A descriptor written as text and read back *)

\* the descriptors of up to MaxDescriptorLen components
Descriptors ==
    UNION {[1..n -> 0..9] : n \in 0..MaxDescriptorLen}

\* descriptorToString on a descriptor, then stringToDescriptor on its text
EncodeDecode ==
    /\ ~codec.called
    /\ \E descriptor \in Descriptors :
          LET text == descriptorToString(descriptor)
          IN codec' = [called |-> TRUE, descriptor |-> descriptor, text |-> text,
                       decoded |-> stringToDescriptor(text)]
    /\ UNCHANGED <<attendance_records, calendarVars, recognition, service,
                   panel, activityData, polls, pollLog, classified>>

NextCodec == EncodeDecode

SpecCodec == Init /\ [][NextCodec]_vars

-----------------------------------------------------------------------------
(* One record of an identity through the historical fetch and the live merge *)

\* the status texts a record of the table or of the live feed may carry
RecordStatuses ==
    {S_present, S_Present, S_PRESENT, S_late, S_Late, S_LATE,
     S_unauthorized, S_Unauthorized, S_registered, S_absent}

\* the sets a run on an empty calendar put the date of the record in
classOf(h) ==
    IF Len(h.attendanceDays) > 0 /\ Len(h.lateAttendanceDays) > 0 THEN "both"
    ELSE IF Len(h.attendanceDays) > 0 THEN "present"
    ELSE IF Len(h.lateAttendanceDays) > 0 THEN "late"
    ELSE "none"

\* a record of identity A, matched by its id or by its user id, is the only
\* result of a historical fetch, and the only record of the live feed
Classify ==
    /\ ~classified.called
    /\ \E status \in RecordStatuses, column \in {"id", "user_id"},
          timestamp \in TicksPerDay..((DaysInMonth + 1) * TicksPerDay - 1) :
          LET record == [id |-> IF column = "id" THEN "A" ELSE "r1",
                         user_id |-> IF column = "user_id" THEN "A" ELSE NULL,
                         timestamp |-> timestamp, status |-> status,
                         device_info |-> NoDeviceInfo]
              fetch == [faceId |-> "A", pc |-> "done", threw |-> FALSE,
                        recordsById |-> IF column = "id" THEN <<record>> ELSE <<>>,
                        errorById |-> FALSE,
                        recordsByUserId |-> IF column = "user_id" THEN <<record>> ELSE <<>>,
                        errorByUserId |-> FALSE]
          IN classified' =
                 [called |-> TRUE, record |-> record,
                  fetched |-> classOf(applyAttendanceRecords(Hook, fetch)),
                  live |-> classOf(mergeEffect(Hook, "A", <<record>>, NoDate))]
    /\ UNCHANGED <<attendance_records, calendarVars, recognition, service,
                   panel, activityData, polls, pollLog, codec>>

NextClassify == Classify

SpecClassify == Init /\ [][NextClassify]_vars

-----------------------------------------------------------------------------
(* The calendar as sets of calendar dates *)

daySet(dates) == {DayOf(dates[i]) : i \in 1..Len(dates)}
presentDays == daySet(attendanceDays)
lateDays == daySet(lateAttendanceDays)
absentDaySet == daySet(absentDays)

\* a step in which loadAttendanceRecords call i resumes
AttendanceResolves(i) ==
    /\ mounted'
    /\ i \in 1..Len(attendanceFetches)
    /\ attendanceFetches[i].pc = "done"
    /\ attendanceFetches' = RemoveAt(attendanceFetches, i)

\* a step in which loadDailyAttendance call i resumes
DailyResolves(i) ==
    /\ mounted'
    /\ i \in 1..Len(dailyFetches)
    /\ dailyFetches[i].pc = "done"
    /\ dailyFetches' = RemoveAt(dailyFetches, i)

\* the calendar dates the live records of an identity stand for
liveDays(faceId, recent) ==
    LET c == collectLive(faceRecordsOf(faceId, recent))
    IN daySet(c.presentDates) \cup daySet(c.lateDates)

\* the calendar of a newly selected identity when the result of the historical
\* fetch arrives first and the live records are merged after it
histThenLive(fetch, faceId, recent, date) ==
    LET fresh == [Hook EXCEPT !.attendanceDays = <<>>, !.lateAttendanceDays = <<>>,
                              !.absentDays = <<>>, !.workingDays = generateWorkingDays]
        h == absentEffect(mergeEffect(absentEffect(applyAttendanceRecords(fresh, fetch)),
                                      faceId, recent, date))
    IN <<daySet(h.attendanceDays), daySet(h.lateAttendanceDays), daySet(h.absentDays)>>

-----------------------------------------------------------------------------
(* Claims about the calendar *)

\* C1: for the same records of the selected identity, the calendar reached when
\* the live records are merged first and the historical fetch resolves after
\* them equals the calendar reached in the other order.
C1_Commutative ==
    [][\A i \in 1..Len(attendanceFetches) :
          (/\ AttendanceResolves(i)
           /\ ~hasFailed(attendanceFetches[i])
           /\ selectedFaceId # NULL
           /\ attendanceFetches[i].faceId = selectedFaceId)
          => <<presentDays', lateDays', absentDaySet'>> =
                 histThenLive(attendanceFetches[i], selectedFaceId,
                              recentAttendance, selectedDate)]_vars

\* C2: while an identity stays selected, a date that a live record has put
\* into presentDays or lateDays is still there after a historical fetch of
\* that identity resolves.
C2_LiveDatesKept ==
    [][\A i \in 1..Len(attendanceFetches) :
          (/\ AttendanceResolves(i)
           /\ selectedFaceId # NULL
           /\ attendanceFetches[i].faceId = selectedFaceId)
          => \A d \in liveDays(selectedFaceId, recentAttendance) :
                 d \in presentDays \cup lateDays => d \in presentDays' \cup lateDays']_vars

\* C3: a historical fetch or per-day fetch started for an identity that is no
\* longer the selected one changes neither presentDays, lateDays nor dailyDetail
\* when it resolves.
C3_StaleFetchDiscarded ==
    [][/\ \A i \in 1..Len(attendanceFetches) :
             (AttendanceResolves(i) /\ attendanceFetches[i].faceId # selectedFaceId)
             => UNCHANGED <<attendanceDays, lateAttendanceDays, dailyAttendance>>
       /\ \A i \in 1..Len(dailyFetches) :
             (DailyResolves(i) /\ dailyFetches[i].faceId # selectedFaceId)
             => UNCHANGED <<attendanceDays, lateAttendanceDays, dailyAttendance>>]_vars

\* C4: presentDays, lateDays and absentDays are pairwise disjoint by calendar
\* date in every state (every state of the model is settled: an action runs
\* the effects it triggers).
C4_PairwiseDisjoint ==
    /\ presentDays \cap lateDays = {}
    /\ presentDays \cap absentDaySet = {}
    /\ lateDays \cap absentDaySet = {}

\* C5: with an identity selected and its historical fetch resolved, every
\* working day not later than today is in presentDays, lateDays or absentDays.
C5_Totality ==
    (selectedFaceId # NULL /\ Len(attendanceFetches) = 0)
    => \A i \in 1..Len(workingDays) :
           workingDays[i] <= Now
           => DayOf(workingDays[i]) \in presentDays \cup lateDays \cup absentDaySet

\* C10: a historical query that failed (a rejected promise or an error result)
\* leaves presentDays, lateDays, absentDays and dailyDetail as they were.
C10_FailureKeepsState ==
    [][/\ \A i \in 1..Len(attendanceFetches) :
             (AttendanceResolves(i) /\ hasFailed(attendanceFetches[i]))
             => UNCHANGED <<attendanceDays, lateAttendanceDays, absentDays, dailyAttendance>>
       /\ \A i \in 1..Len(dailyFetches) :
             (DailyResolves(i) /\ hasFailed(dailyFetches[i]))
             => UNCHANGED <<attendanceDays, lateAttendanceDays, absentDays, dailyAttendance>>]_vars

\* the live records of the identity are merged: the dates they stand for are
\* in presentDays and lateDays
liveMerged(faceId, recent) ==
    LET c == collectLive(faceRecordsOf(faceId, recent))
    IN /\ daySet(c.presentDates) \subseteq presentDays
       /\ daySet(c.lateDates) \subseteq lateDays

\* C11: the live merge is idempotent: when the live feed delivers again a
\* record that is already merged (the dates of the live records are in
\* presentDays and lateDays), attendanceDays, lateAttendanceDays and absentDays
\* stay as they are, so no calendar date is added a second time.
C11_MergeIdempotent ==
    [][\A r \in Range(attendance_records) :
          (/\ recentAttendance' = Append(recentAttendance, r)
           /\ r \in Range(recentAttendance)
           /\ liveMerged(selectedFaceId, recentAttendance))
          => UNCHANGED <<attendanceDays, lateAttendanceDays, absentDays>>]_vars

C11_Witness ==
    /\ selectedFaceId # NULL
    /\ \E i, j \in 1..Len(recentAttendance) :
          /\ i < j
          /\ recentAttendance[i] = recentAttendance[j]
          /\ recentAttendance[i].user_id = selectedFaceId
          /\ DayOf(recentAttendance[i].timestamp) \in presentDays
    /\ Len(attendanceDays) = 1
    /\ absentDays # <<>>

\* C12: when a live record of the selected identity arrives for a day that is
\* in absentDays, the day is afterwards in presentDays if the status of the
\* record is present, in lateDays if it is late, and no longer in absentDays;
\* no other date changes its class.
C12_AbsentDayMoves ==
    [][\A r \in Range(attendance_records) :
          (/\ recentAttendance' = Append(recentAttendance, r)
           /\ selectedFaceId # NULL
           /\ r.user_id = selectedFaceId
           /\ DayOf(r.timestamp) \in absentDaySet
           /\ liveClass(r.status) # "none")
          => LET d == DayOf(r.timestamp)
             IN /\ liveClass(r.status) = "present" => d \in presentDays'
                /\ liveClass(r.status) = "late" => d \in lateDays'
                /\ d \notin absentDaySet'
                /\ presentDays' \ {d} = presentDays \ {d}
                /\ lateDays' \ {d} = lateDays \ {d}
                /\ absentDaySet' \ {d} = absentDaySet \ {d}]_vars

\* C13: in the step that clears the selected identity presentDays, lateDays,
\* absentDays and dailyDetail become empty and the channel of the previous
\* identity is removed.
C13_ClearResets ==
    [][(selectedFaceId # NULL /\ selectedFaceId' = NULL)
          => /\ attendanceDays' = <<>>
             /\ lateAttendanceDays' = <<>>
             /\ absentDays' = <<>>
             /\ dailyAttendance' = <<>>
             /\ \A ch \in channels' : ch.faceId # selectedFaceId]_vars

\* an identity was selected (workingDays is set) and then cleared, with
\* records of the table and of the live feed around
C13_Witness ==
    /\ mounted
    /\ selectedFaceId = NULL
    /\ workingDays # <<>>
    /\ recentAttendance # <<>>
    /\ attendanceDays = <<>> /\ lateAttendanceDays = <<>> /\ absentDays = <<>>
    /\ dailyAttendance = <<>>
    /\ channels = {}

C16_UnauthorizedNotAttributed ==
    \A d \in presentDays :
        \E i \in 1..Len(attendance_records) :
            /\ attendance_records[i].user_id # NULL
            /\ DayOf(attendance_records[i].timestamp) = d

\* the row of the unrecognized face is in the table and in the live feed, an
\* identity is selected, its fetch has read the table after that row was
\* inserted, and the date of the row is not in presentDays
C16_Witness ==
    /\ selectedFaceId # NULL
    /\ Len(attendanceFetches) = 0
    /\ \E i \in 1..Len(attendance_records), j \in 1..Len(recentAttendance) :
          /\ attendance_records[i].user_id = NULL
          /\ toLowerCase(attendance_records[i].status) = S_unauthorized
          /\ recentAttendance[j] = attendance_records[i]
          /\ DayOf(attendance_records[i].timestamp) \notin presentDays
          /\ \E k \in 1..Len(attendance_records), n \in 1..Len(attendanceDays) :
                /\ i < k
                /\ attendance_records[k].user_id = selectedFaceId
                /\ attendanceDays[n] = attendance_records[k].timestamp
                /\ attendanceDays[n] # startOfDay(attendanceDays[n])

\* C19: when a historical fetch one of whose queries failed (a rejected
\* promise or an error result) comes back, the hook raises its error
\* notification, and no new fetch is started in that step.
C19_FailureReported ==
    [][/\ \A i \in 1..Len(attendanceFetches) :
             (AttendanceResolves(i) /\ hasFailed(attendanceFetches[i]))
             => /\ "Failed to load attendance records" \in toasts'
                /\ dailyFetches' = dailyFetches
       /\ \A i \in 1..Len(dailyFetches) :
             (DailyResolves(i) /\ hasFailed(dailyFetches[i]))
             => /\ "Failed to load daily attendance details" \in toasts'
                /\ attendanceFetches' = attendanceFetches]_vars

\* the panel as rendered from the state of the hook and the live feed
dailyDetailView ==
    DailyAttendanceDetails(selectedDate, dailyAttendance, attendanceDays,
                           lateAttendanceDays, absentDays, recentAttendance)

\* the live records whose timestamp lies inside the selected day
liveOfSelectedDate ==
    SelectSeq(recentAttendance, LAMBDA record : DayOf(record.timestamp) = DayOf(selectedDate))

\* C15: for a selected date not later than today the panel shows the live
\* records of that day when there is one; else the result of the per-day
\* fetch when it is not empty; else Present when the date is in presentDays or
\* lateDays, Absent when it is in absentDays, and the no-record notice
\* otherwise.
C15_DailyDetailChain ==
    (selectedDate # NoDate /\ DayOf(selectedDate) <= Today) =>
        dailyDetailView =
            IF Len(liveOfSelectedDate) > 0
            THEN [kind |-> "realtime", records |-> liveOfSelectedDate]
            ELSE IF Len(dailyAttendance) > 0
                 THEN [kind |-> "daily", records |-> dailyAttendance]
            ELSE IF DayOf(selectedDate) \in presentDays \cup lateDays
                 THEN [kind |-> "Present"]
            ELSE IF DayOf(selectedDate) \in absentDaySet THEN [kind |-> "Absent"]
            ELSE [kind |-> "No attendance recorded"]

-----------------------------------------------------------------------------
(* Claims about recognizeFace, stated with a distance of their own *)

RECURSIVE sumOfSquares(_, _, _)
sumOfSquares(p, q, indices) ==
    IF indices = {} THEN 0
    ELSE LET i == CHOOSE j \in indices : TRUE
         IN (p[i] - q[i]) * (p[i] - q[i]) + sumOfSquares(p, q, indices \ {i})

\* the Euclidean distance in thousandths, rounded down
euclidean(p, q) ==
    LET s == sumOfSquares(p, q, 1..Len(p))
    IN CHOOSE r \in 0..(100 * (s + 1)) : r * r <= 10000 * s /\ 10000 * s < (r + 1) * (r + 1)

\* a record whose descriptor is a text that decodes to the probe's length
comparable(probe, record) ==
    /\ ~record.device_info.isNull
    /\ ~record.device_info.metadata.isNull
    /\ record.device_info.metadata.faceDescriptor.type = "string"
    /\ ~stringToDescriptor(record.device_info.metadata.faceDescriptor.text).threw
    /\ Len(stringToDescriptor(record.device_info.metadata.faceDescriptor.text).value)
           = Len(probe)

\* the latest call, when its query succeeded
Answered == recognition.called /\ ~recognition.error
Candidates ==
    {i \in 1..Len(recognition.data) :
        comparable(recognition.faceDescriptor, recognition.data[i])}
distanceTo(i) ==
    euclidean(recognition.faceDescriptor,
              stringToDescriptor(recognition.data[i].device_info.metadata.faceDescriptor.text).value)
minDistance == CHOOSE d \in {distanceTo(i) : i \in Candidates} :
                   \A i \in Candidates : d <= distanceTo(i)
NotRecognized == [status |-> "returned", recognized |-> FALSE]

\* C6: recognized is true exactly when the smallest distance to a comparable
\* record is under 0.6; the employee is then built from a record at that
\* distance and confidence is 1 minus it, over 0.4 and at most 1; otherwise
\* the result carries neither employee nor confidence.
C6_ThresholdAndConfidence ==
    Answered =>
        LET r == recognition.result
        IN /\ r.status = "returned"
           /\ r.recognized <=> (Candidates # {} /\ minDistance < 600)
           /\ r.recognized =>
                 /\ \E i \in Candidates :
                       /\ distanceTo(i) = minDistance
                       /\ r.employee = employeeOf(recognition.data[i])
                 /\ r.confidence = 1000 - minDistance
                 /\ r.confidence > 400 /\ r.confidence <= 1000
           /\ ~r.recognized => r = NotRecognized

C6_Witness ==
    /\ Answered
    /\ recognition.result.recognized
    /\ recognition.result.confidence = 500
    /\ \E i \in Candidates : distanceTo(i) = 600

\* C7: of the records at the smallest distance the first in the order of the
\* query wins.
C7_FirstMinimumWins ==
    (Answered /\ recognition.result.recognized) =>
        LET first == CHOOSE i \in Candidates :
                         /\ distanceTo(i) = minDistance
                         /\ \A j \in Candidates : distanceTo(j) = minDistance => i <= j
        IN recognition.result.employee = employeeOf(recognition.data[first])

C7_Witness ==
    /\ Answered
    /\ recognition.result.recognized
    /\ \E i, j \in Candidates :
          /\ i < j
          /\ distanceTo(i) = minDistance
          /\ distanceTo(j) = minDistance
          /\ employeeOf(recognition.data[i]) # employeeOf(recognition.data[j])
          /\ recognition.result.employee = employeeOf(recognition.data[i])

\* C8: the result is the result on the list without the records that are not
\* comparable; such a record never aborts the pass, and a list of such
\* records only gives recognized = false.
C8_IncomparableSkipped ==
    Answered =>
        /\ recognition.result.status = "returned"
        /\ recognition.result =
               recognizeFace(recognition.faceDescriptor,
                   [error |-> FALSE,
                    data |-> SelectSeq(recognition.data,
                                 LAMBDA record : comparable(recognition.faceDescriptor, record))])
        /\ Candidates = {} => recognition.result = NotRecognized

\* a record with a descriptor text that does not decode or has another length
hasUnusableText(record) ==
    /\ ~record.device_info.isNull
    /\ ~record.device_info.metadata.isNull
    /\ record.device_info.metadata.faceDescriptor.type = "string"

C8_Witness ==
    /\ Answered
    /\ recognition.result.recognized
    /\ \E i, j, k \in 1..Len(recognition.data) :
          /\ i < k /\ j < k
          /\ i \notin Candidates /\ ~hasUnusableText(recognition.data[i])
          /\ j \notin Candidates /\ hasUnusableText(recognition.data[j])
          /\ k \in Candidates
          /\ recognition.result.employee = employeeOf(recognition.data[k])

\* C9: recognizeFace raises exactly when the query reports an error; an empty
\* table and a table without a candidate under the threshold give
\* recognized = false.
C9_NoMatchIsNoError ==
    recognition.called =>
        /\ recognition.result.status = "threw" <=> recognition.error
        /\ (~recognition.error /\ (Candidates = {} \/ minDistance >= 600))
               => recognition.result = NotRecognized

C9_Witness ==
    /\ Answered
    /\ Len(recognition.data) = 0
    /\ recognition.result = NotRecognized

-----------------------------------------------------------------------------
(* Claims about recordAttendance and registerFace *)

\* the latest service call was op and the table is as that call left it
Called(op) == service.op = op

\* C17: recordAttendance with status unauthorized persists a record with
\* status present whose user is absent or unknown; with status present, late
\* or absent it persists the given status.
C17_UnauthorizedRecord ==
    (Called("recordAttendance") /\ ~service.threw) =>
        LET row == service.data[1]
        IN /\ attendance_records[service.rowsBefore + 1] = row
           /\ service.status = S_unauthorized =>
                  /\ row.status = S_present
                  /\ row.user_id \in {NULL, "unknown"}
           /\ service.status # S_unauthorized => row.status = service.status

\* the inputs of registerFace that the registration needs are all there
validRegistration(in) ==
    /\ in.imageBlob = "blob"
    /\ in.name # "" /\ in.employee_id # ""
    /\ in.department # "" /\ in.position # ""

\* C18: registerFace with an empty image or a missing required field throws
\* without an upload and without an insert; a call that throws has persisted
\* no record.
C18_RegisterValidates ==
    Called("registerFace") =>
        /\ ~validRegistration(service.in) =>
               /\ service.threw
               /\ ~service.uploaded
               /\ Len(attendance_records) = service.rowsBefore
        /\ service.threw => Len(attendance_records) = service.rowsBefore

\* C20: when registerFace has stored a record with descriptor d and
\* recognizeFace is called with d on a table that holds the record, the result
\* is recognized with confidence 1, that is distance 0.
C20_RegisteredIsRecognized ==
    (/\ Answered
     /\ Called("registerFace") /\ ~service.threw
     /\ service.in.hasDescriptor
     /\ service.in.faceDescriptor = recognition.faceDescriptor
     /\ service.data[1] \in Range(recognition.data))
    => /\ recognition.result.status = "returned"
       /\ recognition.result.recognized
       /\ recognition.result.confidence = 1000

C20_Witness ==
    /\ Answered
    /\ Called("registerFace") /\ ~service.threw
    /\ service.in.hasDescriptor
    /\ service.in.faceDescriptor = recognition.faceDescriptor
    /\ Len(recognition.data) = MaxServiceRows
    /\ service.data[1] = recognition.data[Len(recognition.data)]
    /\ recognition.result.recognized
    /\ recognition.result.confidence = 1000
    /\ recognition.result.employee = employeeOf(service.data[1])

-----------------------------------------------------------------------------
(* Claims about the panel, the store and the codec *)

\* C21: whenever the selected date is later than today, the panel reports that
\* no data is available for it, whatever the present, late and absent days, the
\* per-day detail and the live records hold: it shows neither Absent nor a list
\* of records.
C21_FutureDateHasNoData ==
    (/\ panel.rendered
     /\ panel.selectedDate # NoDate
     /\ DayOf(panel.selectedDate) > DayOf(Now))
        => panel.view.kind = "future"

\* a render of a future date that is in absentDays, with a live record and a
\* detail record stamped on it
C21_Witness ==
    /\ panel.rendered
    /\ panel.selectedDate # NoDate
    /\ DayOf(panel.selectedDate) > DayOf(Now)
    /\ isDateInArray(panel.selectedDate, panel.absentDays)
    /\ Len(panel.dailyAttendance) > 0
    /\ Len(getRealtimeAttendance(panel.selectedDate, panel.recentAttendance)) > 0
    /\ panel.view.kind = "future"

\* a step in which a function that writes the table returned
Returned(op) == service' # service /\ service'.op = op

\* C22: the store is append-only. Every successful call of registerFace,
\* recordAttendance or storeUnrecognizedFace adds exactly one record, no step
\* changes or removes a record the store holds, and a call of recognizeFace
\* leaves the store as it was.
C22_AppendOnly ==
    [][/\ Len(attendance_records') >= Len(attendance_records)
       /\ SubSeq(attendance_records', 1, Len(attendance_records)) = attendance_records
       /\ (\/ (Returned("registerFace") /\ ~service'.threw)
            \/ (Returned("recordAttendance") /\ ~service'.threw)
            \/ (Returned("storeUnrecognizedFace") /\ service'.error = "none"))
              => Len(attendance_records') = Len(attendance_records) + 1
       /\ recognition' # recognition => attendance_records' = attendance_records]_vars

\* the three writers have each added a row after a row, and recognizeFace has
\* run on a table that holds rows
C22_Witness ==
    /\ Len(attendance_records) = MaxServiceRows
    /\ service.op = "storeUnrecognizedFace" /\ service.error = "none"
    /\ service.rowsBefore > 0
    /\ recognition.called /\ Len(recognition.data) > 0

\* C23: a descriptor written as text by descriptorToString and read back by
\* stringToDescriptor is the descriptor again: the text is read without an
\* error, with the same number of components and the same value in each.
C23_RoundTrip ==
    codec.called =>
        /\ ~codec.decoded.threw
        /\ Len(codec.decoded.value) = Len(codec.descriptor)
        /\ \A i \in 1..Len(codec.descriptor) :
               codec.decoded.value[i] = codec.descriptor[i]

\* a descriptor of the greatest length with different components came back
C23_Witness ==
    /\ codec.called
    /\ Len(codec.descriptor) = MaxDescriptorLen
    /\ codec.descriptor[1] # codec.descriptor[MaxDescriptorLen]
    /\ ~codec.decoded.threw
    /\ codec.decoded.value = codec.descriptor

\* the set the claimed rule puts a record of this status in
claimedClass(status) ==
    IF includes(toLowerCase(status), S_present) THEN "present"
    ELSE IF includes(toLowerCase(status), S_late) THEN "late"
    ELSE "none"

\* C24: the historical fetch and the live merge classify a record the same way
\* and without regard to case: a status that contains present counts as a
\* present day, one that contains late as a late day, and any other status
\* (registered, unauthorized, absent) counts as neither.
C24_SameClassification ==
    classified.called =>
        /\ classified.fetched = claimedClass(classified.record.status)
        /\ classified.live = claimedClass(classified.record.status)

-----------------------------------------------------------------------------
(* Claims about the calendar under changes of the selection *)

\* C25: whenever no per-day fetch is in flight, every record of the daily
\* detail has its timestamp inside the selected date, also after the date was
\* changed and after a notification of the channel reloaded the detail.
C25_DetailOfSelectedDate ==
    (mounted /\ Len(dailyFetches) = 0 /\ selectedDate # NoDate) =>
        \A i \in 1..Len(dailyAttendance) :
            DayOf(dailyAttendance[i].timestamp) = DayOf(selectedDate)

\* C26: every date of absentDays is a date of workingDays and is not later
\* than the current date.
C26_AbsentIsPastWorkingDay ==
    \A i \in 1..Len(absentDays) :
        /\ isDateInArray(absentDays[i], workingDays)
        /\ DayOf(absentDays[i]) <= DayOf(Now)

\* absent days have been derived while the month has a working day after today
C26_Witness ==
    /\ Len(absentDays) > 0
    /\ \E i \in 1..Len(workingDays) : DayOf(workingDays[i]) > DayOf(Now)
    /\ \E i \in 1..Len(workingDays) :
           /\ DayOf(workingDays[i]) <= DayOf(Now)
           /\ ~isDateInArray(workingDays[i], absentDays)

\* the calendar dates of the records of an identity, in the table or in the
\* live feed
recordDays(faceId) ==
    {DayOf(r.timestamp) :
        r \in {x \in Range(attendance_records) \cup Range(recentAttendance) :
                  x.user_id = faceId \/ x.id = faceId}}

\* C27: once the historical fetch of the selected identity has resolved, the
\* present, late and absent days reflect only the records of that identity,
\* also right after a direct switch from another identity: every present or
\* late date is a date of one of its records, and when it has no record at all
\* no absent date is left.
C27_SwitchReflectsOnlyNew ==
    [][\A i \in 1..Len(attendanceFetches) :
          (/\ AttendanceResolves(i)
           /\ ~hasFailed(attendanceFetches[i])
           /\ attendanceFetches[i].faceId = selectedFaceId)
          => /\ (presentDays' \cup lateDays') \subseteq recordDays(selectedFaceId)
             /\ recordDays(selectedFaceId) = {} => absentDaySet' = {}]_vars

\* C28: while an identity is selected, every live record the daily detail
\* lists belongs to it: its user id or its id is the one selected.
C28_LiveDetailOfSelectedIdentity ==
    (mounted /\ selectedFaceId # NULL /\ dailyDetailView.kind = "realtime") =>
        \A i \in 1..Len(dailyDetailView.records) :
            \/ dailyDetailView.records[i].user_id = selectedFaceId
            \/ dailyDetailView.records[i].id = selectedFaceId

\* C29: loading is true whenever a historical fetch that was started has not
\* resolved yet, also when fetches overlap, and false once all have resolved.
C29_LoadingWhileFetching ==
    mounted => (loading <=> Len(attendanceFetches) > 0)

-----------------------------------------------------------------------------
(* Claims about the list of recent activity *)

\* C30: the list RecentActivity shows is the list of the most recently started
\* call of fetchRecentActivity among those that succeeded: a call that started
\* earlier never replaces the list of a call that started later.
C30_LatestPollShown ==
    pollLog.mounted => activityData = pollLog.list

====
